---- MODULE Spec2Model ----
(***************************************************************************)
(* Guest-identity resolution and the task tools of the Todo AI chatbot:    *)
(*   backend/src/mcp_server/server.py     MockAuthService, TodoMCPTools    *)
(*   backend/src/services/chat_service.py ChatService                      *)
(* Strings (handles, titles, e-mails, LIKE patterns) are tuples of         *)
(* one-character strings, so that searching, parsing, formatting and       *)
(* pattern matching are computed character by character.                   *)
(***************************************************************************)
EXTENDS Integers, Sequences, FiniteSets, TLC

VARIABLES users, tasks, nextTaskId, createdBy, hashSeed, likeEscape, last, calls,
          conversations, messages

vars == <<users, tasks, nextTaskId, createdBy, hashSeed, likeEscape, last, calls,
          conversations, messages>>

(***************************************************************************)
(* Bounds of the model.                                                    *)
(***************************************************************************)
\* add_task is not taken once this many task ids have been handed out
MaxTaskId == 2

\* no user row is inserted once the user store holds this many
MaxUsers == 2

\* no conversation is created once the conversation table holds this many
MaxConversations == 2

\* no message is added once the message table holds this many
MaxMessages == 3

\* the largest limit passed to get_conversation_history
MaxLimit == 2

\* what params.get(key) returns for an absent key (Python None): a tuple that
\* equals no string, since every character of a string is one character long
None == <<"None">>

(***************************************************************************)
(* Python string primitives.                                               *)
(***************************************************************************)
Digits == <<"0", "1", "2", "3", "4", "5", "6", "7", "8", "9">>

UpperCase == <<"A", "B", "C", "D", "E", "F", "G", "H", "I", "J", "K", "L", "M",
               "N", "O", "P", "Q", "R", "S", "T", "U", "V", "W", "X", "Y", "Z">>

LowerCase == <<"a", "b", "c", "d", "e", "f", "g", "h", "i", "j", "k", "l", "m",
               "n", "o", "p", "q", "r", "s", "t", "u", "v", "w", "x", "y", "z">>

\* the value of every decimal digit
DigitOf == [d \in {Digits[i] : i \in 1..10} |->
               (CHOOSE i \in 1..10 : Digits[i] = d) - 1]

IsDigit(c) == c \in DOMAIN DigitOf

DigitVal(c) == DigitOf[c]

\* the lower-case letter of every upper-case letter
LowerOf == [u \in {UpperCase[i] : i \in 1..26} |->
               LowerCase[CHOOSE i \in 1..26 : UpperCase[i] = u]]

\* str.lower() on one character
LowerChar(c) == IF c \in DOMAIN LowerOf THEN LowerOf[c] ELSE c

\* str.lower()
Lower(s) == [i \in 1..Len(s) |-> LowerChar(s[i])]

\* sub in s
Contains(s, sub) ==
    \E i \in 1..(Len(s) - Len(sub) + 1) : SubSeq(s, i, i + Len(sub) - 1) = sub

\* the value of a run of decimal digits
RECURSIVE DigitsValue(_)
DigitsValue(ds) ==
    IF ds = <<>> THEN 0
    ELSE 10 * DigitsValue(SubSeq(ds, 1, Len(ds) - 1)) + DigitVal(ds[Len(ds)])

AllDigits(s) == s # <<>> /\ \A i \in 1..Len(s) : IsDigit(s[i])

\* int(s): an optional sign, then decimal digits; anything else is ValueError
IntOk(s) ==
    \/ AllDigits(s)
    \/ Len(s) >= 2 /\ s[1] \in {"+", "-"} /\ AllDigits(Tail(s))

IntVal(s) ==
    IF s[1] = "-" THEN 0 - DigitsValue(Tail(s))
    ELSE IF s[1] = "+" THEN DigitsValue(Tail(s))
    ELSE DigitsValue(s)

\* str(n) for n >= 0
RECURSIVE NatStr(_)
NatStr(n) ==
    IF n < 10 THEN <<Digits[n + 1]>>
    ELSE NatStr(n \div 10) \o <<Digits[(n % 10) + 1]>>

\* the longest run of digits of s that starts at position i
RECURSIVE DigitRunEnd(_, _)
DigitRunEnd(s, i) ==
    IF i + 1 <= Len(s) /\ IsDigit(s[i + 1]) THEN DigitRunEnd(s, i + 1) ELSE i

DigitRunAt(s, i) == SubSeq(s, i, DigitRunEnd(s, i))

S_guest == <<"g", "u", "e", "s", "t">>

S_guest_ == <<"g", "u", "e", "s", "t", "_">>

S_user_ == <<"u", "s", "e", "r", "_">>

S_at_example_com == <<"@", "e", "x", "a", "m", "p", "l", "e", ".", "c", "o", "m">>

\* 'guest' in str(user_id).lower()
IsGuestHandle(s) == Contains(Lower(s), S_guest)

\* f"guest_{n}@example.com"
GuestEmail(n) == S_guest_ \o NatStr(n) \o S_at_example_com

\* the positions where re.search(r'guest_(\d+)', s) can match (case-sensitive)
GuestMatchPositions(s) ==
    {i \in 1..Len(s) : /\ i + 6 <= Len(s)
                       /\ SubSeq(s, i, i + 5) = S_guest_
                       /\ IsDigit(s[i + 6])}

Min(S) == CHOOSE x \in S : \A y \in S : x <= y

\* re.search(r'guest_(\d+)', s).group(1): leftmost match, greedy digits
GuestMatchDigits(s) == DigitRunAt(s, Min(GuestMatchPositions(s)) + 6)

\* the positions where re.search(r'(\d+)', s) can match
DigitPositions(s) == {i \in 1..Len(s) : IsDigit(s[i])}

\* re.search(r'(\d+)', s).group(1): the first run of digits anywhere in s
FirstDigits(s) == DigitRunAt(s, Min(DigitPositions(s)))

(***************************************************************************)
(* Handles the callers pass as user_id.                                    *)
(***************************************************************************)
H_1 == <<"1">>

H_42 == <<"4", "2">>

H_0 == <<"0">>

H_guest_42 == <<"g", "u", "e", "s", "t", "_", "4", "2">>

H_7guest_42 == <<"7", "g", "u", "e", "s", "t", "_", "4", "2">>

H_Guest_42 == <<"G", "u", "e", "s", "t", "_", "4", "2">>

H_abc == <<"a", "b", "c">>

\* the callers of the identity and ownership runs: a numeric user, a guest,
\* and a handle that is neither a number nor a guest
Handles == {H_42, H_guest_42, H_abc}

\* the caller of the parameter-handling runs
EditHandles == {H_1}

H_minus5 == <<"-", "5">>

H_guest == <<"g", "u", "e", "s", "t">>

H_GUEST_minus5 == <<"G", "U", "E", "S", "T", "_", "-", "5">>

\* the handles validate_user is applied to: str(n) for n > 0 and n <= 0,
\* "guest" in either letter case with digits, a sign or nothing after it,
\* text that is neither, and the empty string
AuthHandles == {H_1, H_42, H_0, H_minus5, H_guest_42, H_Guest_42, H_7guest_42,
                H_guest, H_GUEST_minus5, H_abc, <<>>}

\* the callers of the authorization and failure runs: refused handles, a
\* numeric user, and guests that have no user row
GateHandles == {H_0, H_minus5, H_abc, H_1, H_guest_42, H_guest}

(***************************************************************************)
(* hash(str): Python salts str hashes per process (PYTHONHASHSEED), so the *)
(* value is fixed while the process runs and arbitrary otherwise.  Each    *)
(* seed below is one salt; the tables give hash(s), sign included.         *)
(***************************************************************************)
HashSeeds == {"apart", "clash"}

\* hash(s) under a salt
PyHash(seed, s) ==
    CASE seed = "apart" ->
            (CASE s = H_guest_42 -> 5000017
               [] s = H_7guest_42 -> 0 - 2000019
               [] s = H_Guest_42 -> 23
               [] OTHER -> 29)
      [] OTHER ->
            (CASE s = H_guest_42 -> 0 - 17
               [] s = H_7guest_42 -> 17
               [] s = H_Guest_42 -> 7
               [] OTHER -> 9000042)

Abs(n) == IF n < 0 THEN 0 - n ELSE n

\* the range the derived guest numbers are reduced to
HashMod == 1000000

\* abs(hash(s)) % 1000000
GuestHash(seed, s) == Abs(PyHash(seed, s)) % HashMod

\* int(digits) % 1000000
GuestNum(ds) == DigitsValue(ds) % HashMod

(***************************************************************************)
(* The user store.  A row is [id, email, username]; ids are handed out in  *)
(* insertion order.                                                        *)
(***************************************************************************)
\* select(User).where(User.email == email): the rows .first() may return
UsersByEmail(us, email) == {u \in us : u.email = email}

Max(S) == CHOOSE x \in S : \A y \in S : x >= y

\* the id the store gives the next inserted user
NextUserId(us) == IF us = {} THEN 1 ELSE Max({u.id : u \in us}) + 1

(***************************************************************************)
(* MockAuthService.validate_user                                           *)
(***************************************************************************)
\* the check accepting every integer, positive or not
ValidateAnyInteger(user_id) ==
    IF Contains(Lower(user_id), S_guest) THEN TRUE
    ELSE IntOk(user_id)

validate_user(user_id) ==
    IF Contains(Lower(user_id), S_guest) THEN TRUE
    ELSE IF IntOk(user_id) THEN IntVal(user_id) > 0
    ELSE FALSE

(***************************************************************************)
(* Identity resolution of the task tools.  Each resolver yields a set of   *)
(* [err, uid]: err = "" and the user id, or the failure and uid 0.         *)
(***************************************************************************)
Resolved(ids) == {[err |-> "", uid |-> i] : i \in ids}

Failed(e) == {[err |-> e, uid |-> 0]}

\* TodoMCPTools._get_user_id_for_guest
_get_user_id_for_guest(us, seed, guest_user_id) ==
    IF GuestMatchPositions(guest_user_id) # {}
    THEN LET guest_num == GuestNum(GuestMatchDigits(guest_user_id))
             primary == UsersByEmail(us, GuestEmail(guest_num))
             guest_hash == GuestHash(seed, guest_user_id)
             fallback == UsersByEmail(us, GuestEmail(guest_hash))
         IN IF primary # {} THEN Resolved({u.id : u \in primary})
            ELSE IF fallback # {} THEN Resolved({u.id : u \in fallback})
            ELSE Failed("NotFound")
    ELSE Failed("InvalidFormat")

\* add_task, list_tasks, complete_task: the guest helper, or int(user_id)
ResolveByHelper(us, seed, user_id) ==
    IF IsGuestHandle(user_id) THEN _get_user_id_for_guest(us, seed, user_id)
    ELSE IF IntOk(user_id) THEN Resolved({IntVal(user_id)})
    ELSE Failed("InvalidFormat")

\* delete_task, update_task: the inlined lookup by the first digits of the handle
ResolveInline(us, user_id) ==
    IF IsGuestHandle(user_id)
    THEN IF DigitPositions(user_id) # {}
         THEN LET guest_num == GuestNum(FirstDigits(user_id))
                  found == UsersByEmail(us, GuestEmail(guest_num))
              IN IF found # {} THEN Resolved({u.id : u \in found})
                 ELSE Failed("NotFound")
         ELSE Failed("InvalidFormat")
    ELSE IF IntOk(user_id) THEN Resolved({IntVal(user_id)})
    ELSE Failed("InvalidFormat")

(***************************************************************************)
(* The task store.  A row is [id, user_id, title, description, completed]. *)
(***************************************************************************)
\* the lookup by id with the owner filter left out
TasksByIdAnyOwner(ts, task_id_int, user_id_int) == {t \in ts : t.id = task_id_int}

\* query(Task).filter(Task.id == task_id_int, Task.user_id == user_id_int)
TasksByIdAndOwner(ts, task_id_int, user_id_int) ==
    {t \in ts : t.id = task_id_int /\ t.user_id = user_id_int}

\* the escape character of the store's LIKE when the statement names none:
\* a backslash (PostgreSQL, MySQL) or no escape character at all (SQLite)
LikeEscapes == {"\\", ""}

\* text LIKE pattern: % any run, _ any one character, esc quotes the next one
RECURSIVE Like(_, _, _)
Like(text, pattern, esc) ==
    IF pattern = <<>> THEN text = <<>>
    ELSE IF pattern[1] = esc /\ Len(pattern) >= 2
    THEN /\ text # <<>>
         /\ text[1] = pattern[2]
         /\ Like(Tail(text), Tail(Tail(pattern)), esc)
    ELSE IF pattern[1] = "%"
    THEN \/ Like(text, Tail(pattern), esc)
         \/ text # <<>> /\ Like(Tail(text), pattern, esc)
    ELSE IF pattern[1] = "_"
    THEN text # <<>> /\ Like(Tail(text), Tail(pattern), esc)
    ELSE /\ text # <<>>
         /\ text[1] = pattern[1]
         /\ Like(Tail(text), Tail(pattern), esc)

\* column.ilike(pattern): both sides lowered, no ESCAPE clause rendered
ILike(text, pattern, esc) == Like(Lower(text), Lower(pattern), esc)

\* s.replace('%', '\\%').replace('_', '\\_')
RECURSIVE EscapeLike(_)
EscapeLike(s) ==
    IF s = <<>> THEN <<>>
    ELSE (IF s[1] \in {"%", "_"} THEN <<"\\", s[1]>> ELSE <<s[1]>>)
         \o EscapeLike(Tail(s))

\* f"%{x}%"
Wrapped(x) == <<"%">> \o x \o <<"%">>

\* delete_task: Task.title.ilike(f"%{escaped_title}%"), Task.user_id == uid
DeleteTitleMatches(ts, task_title, user_id_int, esc) ==
    {t \in ts : /\ ILike(t.title, Wrapped(EscapeLike(task_title)), esc)
                /\ t.user_id = user_id_int}

\* update_task: Task.title.ilike(f"%{task_title}%"), Task.user_id == uid
UpdateTitleMatches(ts, task_title, user_id_int, esc) ==
    {t \in ts : /\ ILike(t.title, Wrapped(task_title), esc)
                /\ t.user_id = user_id_int}

(***************************************************************************)
(* Parameter bags.  A bag gives every key a string, or None when the key   *)
(* is absent.                                                              *)
(***************************************************************************)
ParamKeys == {"task_id", "title", "task_name", "name", "task_title",
              "title_to_find", "new_title", "new_description", "description",
              "status"}

NoParams == [k \in ParamKeys |-> None]

\* Python truth of a params.get(...) value: None and "" are false
Truthy(v) == v # None /\ v # <<>>

\* a or b
PyOr(a, b) == IF Truthy(a) THEN a ELSE b

\* delete_task: params.get("title") or "task_name" or "name" or "task_title"
DeleteLocator(p) == PyOr(p.title, PyOr(p.task_name, PyOr(p.name, p.task_title)))

\* update_task: "title_to_find" or "task_name" or "name" or "task_title" or "title"
UpdateLocator(p) ==
    PyOr(p.title_to_find, PyOr(p.task_name, PyOr(p.name, PyOr(p.task_title, p.title))))

\* the new title read from new_title alone
NewTitleOnly(p) == p.new_title

\* update_task: params.get("new_title") or params.get("title")
NewTitle(p) == PyOr(p.new_title, p.title)

\* update_task: params.get("new_description") or params.get("description")
NewDescription(p) == PyOr(p.new_description, p.description)

(***************************************************************************)
(* The task tools.  A tool takes the store db = [users, tasks, nextTaskId],*)
(* the handle and the parameter bag, and yields the set of outcomes the    *)
(* call can have: the task store after it, the failure raised ("" when it  *)
(* returns), the user id it resolved, the task it acted on and the rows it *)
(* reports.  Every failure is a ValueError; err names the case by the      *)
(* message.                                                                *)
(***************************************************************************)
Outcome(ts, nid, err, uid, task_id, ret) ==
    [tasks |-> ts, nextTaskId |-> nid, err |-> err, uid |-> uid,
     task_id |-> task_id, ret |-> ret]

\* a failure that leaves the task table emptied behind it
RaiseLosingTasks(db, err, uid) == Outcome({}, db.nextTaskId, err, uid, 0, {})

\* raise ValueError(...) before anything is written
Raise(db, err, uid) == Outcome(db.tasks, db.nextTaskId, err, uid, 0, {})

\* TodoMCPTools.add_task
add_task(db, seed, user_id, p) ==
    IF ~validate_user(user_id) THEN {Raise(db, "Unauthorized", 0)}
    ELSE {IF r.err # "" THEN Raise(db, r.err, 0)
          ELSE LET new_task ==
                       [id |-> db.nextTaskId,
                        user_id |-> r.uid,
                        title |-> p.title,
                        description |->
                            IF p.description = None THEN <<>> ELSE p.description,
                        completed |-> FALSE]
               IN Outcome(db.tasks \cup {new_task}, db.nextTaskId + 1, "",
                          r.uid, new_task.id, {new_task})
          : r \in ResolveByHelper(db.users, seed, user_id)}

S_pending == <<"p", "e", "n", "d", "i", "n", "g">>

S_completed == <<"c", "o", "m", "p", "l", "e", "t", "e", "d">>

\* the list query with the owner filter left out
ListQueryAnyOwner(ts, user_id_int, status_filter) ==
    {t \in ts : /\ status_filter = S_pending => t.completed = FALSE
                /\ status_filter = S_completed => t.completed = TRUE}

\* the list query with the status filters left out
ListQueryAnyStatus(ts, user_id_int, status_filter) ==
    {t \in ts : t.user_id = user_id_int}

\* list_tasks: the query filtered by owner and, for the two statuses, by flag
ListQuery(ts, user_id_int, status_filter) ==
    {t \in ts : /\ t.user_id = user_id_int
                /\ status_filter = S_pending => t.completed = FALSE
                /\ status_filter = S_completed => t.completed = TRUE}

\* TodoMCPTools.list_tasks
list_tasks(db, seed, user_id, p) ==
    IF ~validate_user(user_id) THEN {Raise(db, "Unauthorized", 0)}
    ELSE {IF r.err # "" THEN Raise(db, r.err, 0)
          ELSE Outcome(db.tasks, db.nextTaskId, "", r.uid, 0,
                       ListQuery(db.tasks, r.uid, p.status))
          : r \in ResolveByHelper(db.users, seed, user_id)}

\* TodoMCPTools.complete_task
complete_task(db, seed, user_id, p) ==
    IF ~validate_user(user_id) THEN {Raise(db, "Unauthorized", 0)}
    ELSE {IF r.err # "" THEN Raise(db, r.err, 0)
          ELSE IF ~IntOk(p.task_id) THEN Raise(db, "InvalidFormat", r.uid)
          ELSE LET found == TasksByIdAndOwner(db.tasks, IntVal(p.task_id), r.uid)
               IN IF found = {} THEN Raise(db, "NotFound", r.uid)
                  ELSE LET task == CHOOSE t \in found : TRUE
                           done == [task EXCEPT !.completed = TRUE]
                       IN Outcome((db.tasks \ {task}) \cup {done},
                                  db.nextTaskId, "", r.uid, task.id, {done})
          : r \in ResolveByHelper(db.users, seed, user_id)}

\* delete_task looking the title up first and the id only without a title
DeleteResolvedTitleFirst(db, esc, uid, p) ==
    LET task_id == p.task_id
        task_title == DeleteLocator(p)
    IN IF task_id # None /\ ~IntOk(task_id) THEN {Raise(db, "InvalidFormat", uid)}
       ELSE IF task_id = None /\ task_title = None
       THEN {Raise(db, "MissingIdentifier", uid)}
       ELSE LET found ==
                    IF task_title # None
                    THEN DeleteTitleMatches(db.tasks, task_title, uid, esc)
                    ELSE TasksByIdAndOwner(db.tasks, IntVal(task_id), uid)
            IN IF found = {} THEN {Raise(db, "NotFound", uid)}
               ELSE {Outcome(db.tasks \ {task}, db.nextTaskId, "", uid,
                             task.id, {task}) : task \in found}

\* delete_task after the caller is resolved: find the task, delete it
DeleteResolved(db, esc, uid, p) ==
    LET task_id == p.task_id
        task_title == DeleteLocator(p)
    IN IF task_id # None /\ ~IntOk(task_id) THEN {Raise(db, "InvalidFormat", uid)}
       ELSE IF task_id = None /\ task_title = None
       THEN {Raise(db, "MissingIdentifier", uid)}
       ELSE LET found ==
                    IF task_id # None
                    THEN TasksByIdAndOwner(db.tasks, IntVal(task_id), uid)
                    ELSE DeleteTitleMatches(db.tasks, task_title, uid, esc)
            IN IF found = {} THEN {Raise(db, "NotFound", uid)}
               ELSE {Outcome(db.tasks \ {task}, db.nextTaskId, "", uid,
                             task.id, {task}) : task \in found}

\* delete_task without the validate_user check
DeleteTaskUngated(db, esc, user_id, p) ==
    UNION {IF r.err # "" THEN {Raise(db, r.err, 0)}
           ELSE DeleteResolved(db, esc, r.uid, p)
           : r \in ResolveInline(db.users, user_id)}

\* TodoMCPTools.delete_task
delete_task(db, esc, user_id, p) ==
    IF ~validate_user(user_id) THEN {Raise(db, "Unauthorized", 0)}
    ELSE UNION {IF r.err # "" THEN {Raise(db, r.err, 0)}
                ELSE DeleteResolved(db, esc, r.uid, p)
                : r \in ResolveInline(db.users, user_id)}

\* the assignment writing both fields, an absent one as the empty string
ApplyUpdateBothFields(task, new_title, new_description) ==
    [task EXCEPT !.title = IF new_title # None THEN new_title ELSE <<>>,
                 !.description =
                     IF new_description # None THEN new_description ELSE <<>>]

\* update_task: task.title = new_title, task.description = new_description
ApplyUpdate(task, new_title, new_description) ==
    [task EXCEPT !.title = IF new_title # None THEN new_title ELSE @,
                 !.description =
                     IF new_description # None THEN new_description ELSE @]

\* update_task after the caller is resolved: find the task, change it
UpdateResolved(db, esc, uid, p) ==
    LET task_id == p.task_id
        task_title == UpdateLocator(p)
    IN IF task_id # None /\ ~IntOk(task_id) THEN {Raise(db, "InvalidFormat", uid)}
       ELSE IF task_id = None /\ task_title = None
       THEN {Raise(db, "MissingIdentifier", uid)}
       ELSE LET found ==
                    IF task_id # None
                    THEN TasksByIdAndOwner(db.tasks, IntVal(task_id), uid)
                    ELSE UpdateTitleMatches(db.tasks, task_title, uid, esc)
            IN IF found = {} THEN {Raise(db, "NotFound", uid)}
               ELSE {LET updated ==
                             ApplyUpdate(task, NewTitle(p), NewDescription(p))
                     IN Outcome((db.tasks \ {task}) \cup {updated},
                                db.nextTaskId, "", uid, task.id, {updated})
                     : task \in found}

\* TodoMCPTools.update_task
update_task(db, esc, user_id, p) ==
    IF ~validate_user(user_id) THEN {Raise(db, "Unauthorized", 0)}
    ELSE UNION {IF r.err # "" THEN {Raise(db, r.err, 0)}
                ELSE UpdateResolved(db, esc, r.uid, p)
                : r \in ResolveInline(db.users, user_id)}

(***************************************************************************)
(* ChatService._ensure_guest_user_exists, the creating resolver.           *)
(***************************************************************************)
\* the e-mail the creating resolver looks up and inserts for a handle
EnsureEmail(seed, user_id_str) == GuestEmail(GuestHash(seed, user_id_str))

\* f"guest_{guest_hash}" for a handle containing 'guest', else f"user_{guest_hash}"
EnsureUsername(seed, user_id_str) ==
    (IF IsGuestHandle(user_id_str) THEN S_guest_ ELSE S_user_)
    \o NatStr(GuestHash(seed, user_id_str))

\* the handles the resolver returns as int(user_id_str), touching no row
EnsureIsNumeric(user_id_str) == ~IsGuestHandle(user_id_str) /\ IntOk(user_id_str)

\* session.add(guest_user); commit(); refresh(): the store appends the row
InsertUser(us, email, username) ==
    us \cup {[id |-> NextUserId(us), email |-> email, username |-> username]}

\* the resolver without its lookup: a row is inserted on every call
EnsureAlwaysInserts(us, seed, user_id_str) ==
    IF EnsureIsNumeric(user_id_str)
    THEN {[users |-> us, uid |-> IntVal(user_id_str)]}
    ELSE {[users |-> InsertUser(us, EnsureEmail(seed, user_id_str),
                                EnsureUsername(seed, user_id_str)),
           uid |-> NextUserId(us)]}

\* the whole call, run without interruption: the sets of [users, uid] it can yield
_ensure_guest_user_exists(us, seed, user_id_str) ==
    IF EnsureIsNumeric(user_id_str)
    THEN {[users |-> us, uid |-> IntVal(user_id_str)]}
    ELSE LET existing == UsersByEmail(us, EnsureEmail(seed, user_id_str))
         IN IF existing # {}
            THEN {[users |-> us, uid |-> u.id] : u \in existing}
            ELSE {[users |-> InsertUser(us, EnsureEmail(seed, user_id_str),
                                        EnsureUsername(seed, user_id_str)),
                   uid |-> NextUserId(us)]}

(***************************************************************************)
(* ChatService: conversations and messages.  A conversation row is         *)
(* [id, user_id]; a message row is [id, conversation_id, user_id, role,    *)
(* content, created_at].  An operation takes the store                     *)
(* cdb = [users, conversations, messages] and yields the set of outcomes   *)
(* the call can have: the store after it, the user id it resolved and what *)
(* it returns.                                                             *)
(***************************************************************************)
\* session.add(conversation); commit(); refresh(): the store gives the next id
InsertConversation(cs, user_id_int) ==
    cs \cup {[id |-> Cardinality(cs) + 1, user_id |-> user_id_int]}

\* session.add(message); commit(); refresh(): the store gives the next id and
\* stamps created_at, later than every stamp given before
InsertMessage(ms, conversation_id, user_id_int, role, content) ==
    ms \cup {[id |-> Cardinality(ms) + 1, conversation_id |-> conversation_id,
              user_id |-> user_id_int, role |-> role, content |-> content,
              created_at |-> Cardinality(ms) + 1]}

ChatOutcome(us, cs, ms, uid, ret, rows) ==
    [users |-> us, conversations |-> cs, messages |-> ms, uid |-> uid,
     ret |-> ret, rows |-> rows]

\* ChatService.create_conversation
create_conversation(cdb, seed, user_id) ==
    {LET cs == InsertConversation(cdb.conversations, r.uid)
     IN ChatOutcome(r.users, cs, cdb.messages, r.uid,
                    cs \ cdb.conversations, <<>>)
     : r \in _ensure_guest_user_exists(cdb.users, seed, user_id)}

\* the lookup by id with the owner filter left out
ConversationsByIdAnyOwner(cs, conversation_id, actual_user_id) ==
    {c \in cs : c.id = conversation_id}

\* select(Conversation).where(Conversation.id == ..., Conversation.user_id == ...)
ConversationsByIdAndOwner(cs, conversation_id, actual_user_id) ==
    {c \in cs : c.id = conversation_id /\ c.user_id = actual_user_id}

\* ChatService.get_conversation: ret is {} for None, else the one row
get_conversation(cdb, seed, conversation_id, user_id) ==
    UNION {LET found == ConversationsByIdAndOwner(cdb.conversations,
                                                  conversation_id, r.uid)
           IN IF found = {}
              THEN {ChatOutcome(r.users, cdb.conversations, cdb.messages,
                                r.uid, {}, <<>>)}
              ELSE {ChatOutcome(r.users, cdb.conversations, cdb.messages,
                                r.uid, {c}, <<>>) : c \in found}
           : r \in _ensure_guest_user_exists(cdb.users, seed, user_id)}

\* the store an outcome leaves behind
After(o) == [users |-> o.users, conversations |-> o.conversations,
             messages |-> o.messages]

\* get_or_create_conversation never looking the id up
GetOrCreateAlwaysCreates(cdb, seed, conversation_id, user_id) ==
    create_conversation(cdb, seed, user_id)

\* an Optional[int]: {} for None, {i} for the integer i
NoId == {}

TheId(conversation_id) == CHOOSE i \in conversation_id : TRUE

\* ChatService.get_or_create_conversation: conversation_id None or 0 is false
get_or_create_conversation(cdb, seed, conversation_id, user_id) ==
    IF conversation_id # NoId /\ conversation_id # {0}
    THEN UNION {IF g.ret # {} THEN {g}
                ELSE create_conversation(After(g), seed, user_id)
                : g \in get_conversation(cdb, seed, TheId(conversation_id),
                                         user_id)}
    ELSE create_conversation(cdb, seed, user_id)

\* ChatService.add_message
add_message(cdb, seed, conversation_id, user_id, role, content) ==
    {LET ms == InsertMessage(cdb.messages, conversation_id, r.uid, role, content)
     IN ChatOutcome(r.users, cdb.conversations, ms, r.uid,
                    ms \ cdb.messages, <<>>)
     : r \in _ensure_guest_user_exists(cdb.users, seed, user_id)}

\* ORDER BY created_at ASC: the orders the store may return the rows in
RECURSIVE OrderByCreatedAt(_)
OrderByCreatedAt(ms) ==
    IF ms = {} THEN {<<>>}
    ELSE UNION {{<<m>> \o rest : rest \in OrderByCreatedAt(ms \ {m})}
                : m \in {x \in ms : \A y \in ms : x.created_at <= y.created_at}}

\* LIMIT n
Limit(rows, n) == SubSeq(rows, 1, IF n < Len(rows) THEN n ELSE Len(rows))

\* the history query with the owner filter left out
HistoryQueryAnyUser(ms, conversation_id, actual_user_id) ==
    {m \in ms : m.conversation_id = conversation_id}

\* where(Message.conversation_id == ..., Message.user_id == ...)
HistoryQuery(ms, conversation_id, actual_user_id) ==
    {m \in ms : /\ m.conversation_id = conversation_id
                /\ m.user_id = actual_user_id}

\* ChatService.get_conversation_history
get_conversation_history(cdb, seed, conversation_id, user_id, limit) ==
    UNION {{ChatOutcome(r.users, cdb.conversations, cdb.messages, r.uid, {},
                        Limit(rows, limit))
            : rows \in OrderByCreatedAt(HistoryQuery(cdb.messages,
                                                     conversation_id, r.uid))}
           : r \in _ensure_guest_user_exists(cdb.users, seed, user_id)}

(***************************************************************************)
(* The calls the model makes.                                              *)
(***************************************************************************)
T_lit == <<"m", "i", "%", "l", "k">>

T_wild == <<"m", "i", "x", "e", "d", " ", "m", "i", "l", "k">>

T_MILK == <<"M", "I", "L", "K">>

T_X == <<"X">>

D_d == <<"d">>

D_e == <<"e">>

Id_1 == <<"1">>

Id_2 == <<"2">>

Id_x == <<"x">>

ListBags == {[NoParams EXCEPT !.status = st] : st \in {None, S_pending, S_completed}}

\* identity and ownership runs: one title, every tool by id and by title
AddBags == {[NoParams EXCEPT !.title = T_wild]}

CompleteBags == {[NoParams EXCEPT !.task_id = i] : i \in {Id_1, Id_2}}

DeleteBags ==
    {[NoParams EXCEPT !.task_id = Id_1],
     [NoParams EXCEPT !.title = T_MILK]}

UpdateBags ==
    {[NoParams EXCEPT !.task_id = Id_2, !.new_title = T_X],
     [NoParams EXCEPT !.title_to_find = T_MILK, !.new_title = T_X]}

\* parameter-handling runs: one caller, the aliases and the special characters
EditAddBags ==
    {[NoParams EXCEPT !.title = T_lit],
     [NoParams EXCEPT !.title = T_wild, !.description = D_d]}

EditCompleteBags == {[NoParams EXCEPT !.task_id = i] : i \in {Id_1, Id_x}}

EditDeleteBags ==
    {NoParams,
     [NoParams EXCEPT !.task_id = Id_1],
     [NoParams EXCEPT !.task_id = Id_2, !.title = T_lit],
     [NoParams EXCEPT !.task_id = Id_x],
     [NoParams EXCEPT !.title = T_lit],
     [NoParams EXCEPT !.task_name = T_MILK]}

EditUpdateBags ==
    {NoParams,
     [NoParams EXCEPT !.task_id = Id_1, !.new_title = T_X],
     [NoParams EXCEPT !.task_id = Id_1, !.new_description = D_e],
     [NoParams EXCEPT !.task_id = Id_2, !.title = T_X],
     [NoParams EXCEPT !.task_id = Id_2, !.task_name = T_lit, !.new_title = T_X],
     [NoParams EXCEPT !.task_id = Id_x, !.new_title = T_X],
     [NoParams EXCEPT !.title_to_find = T_lit, !.new_description = D_e]}

(***************************************************************************)
(* State.                                                                  *)
(*   users, tasks, nextTaskId  the user and task tables, the task sequence *)
(*   createdBy[i]   the user id add_task resolved when it created task i   *)
(*   hashSeed       the salt of hash() in this process                     *)
(*   likeEscape     the default escape character of the store's LIKE       *)
(*   last           the last tool or resolver call and what it yielded     *)
(*   calls[c]       a caller inside _ensure_guest_user_exists              *)
(*   conversations  the conversation table                                 *)
(*   messages       the message table                                      *)
(***************************************************************************)
Callers == {1, 2}

Idle == [pc |-> "idle", user_id |-> <<>>, missed |-> FALSE, uid |-> 0]

NoCall == [op |-> "none", user_id |-> <<>>, p |-> NoParams, err |-> "",
           uid |-> 0, task_id |-> 0, ret |-> {},
           conversation_id |-> {}, limit |-> 0, rows |-> <<>>]

\* empty tables, nobody calling
InitStore ==
    /\ users = {}
    /\ tasks = {}
    /\ nextTaskId = 1
    /\ createdBy = <<>>
    /\ last = NoCall
    /\ calls = [c \in Callers |-> Idle]
    /\ conversations = {}
    /\ messages = {}

\* identity and ownership runs: any salt.  Their titles and locators hold no
\* %, _ or backslash, so no lookup of theirs consults the escape character.
Init ==
    /\ InitStore
    /\ hashSeed \in HashSeeds
    /\ likeEscape = "\\"

\* parameter-handling runs: any escape character.  Their caller is numeric,
\* so no call of theirs computes a hash.
InitEdit ==
    /\ InitStore
    /\ hashSeed = "apart"
    /\ likeEscape \in LikeEscapes

DB == [users |-> users, tasks |-> tasks, nextTaskId |-> nextTaskId]

\* what a tool call leaves behind
Returned(op, user_id, p, o) ==
    /\ tasks' = o.tasks
    /\ nextTaskId' = o.nextTaskId
    /\ last' = [NoCall EXCEPT !.op = op, !.user_id = user_id, !.p = p,
                               !.err = o.err, !.uid = o.uid,
                               !.task_id = o.task_id, !.ret = o.ret]
    /\ UNCHANGED <<users, hashSeed, likeEscape, calls, conversations, messages>>

AddTask(callers, bags) ==
    /\ nextTaskId <= MaxTaskId
    /\ \E user_id \in callers, p \in bags :
          \E o \in add_task(DB, hashSeed, user_id, p) :
             /\ Returned("add_task", user_id, p, o)
             /\ createdBy' = IF o.err = "" THEN Append(createdBy, o.uid)
                             ELSE createdBy

ListTasks(callers, bags) ==
    \E user_id \in callers, p \in bags :
       \E o \in list_tasks(DB, hashSeed, user_id, p) :
          Returned("list_tasks", user_id, p, o) /\ UNCHANGED createdBy

CompleteTask(callers, bags) ==
    \E user_id \in callers, p \in bags :
       \E o \in complete_task(DB, hashSeed, user_id, p) :
          Returned("complete_task", user_id, p, o) /\ UNCHANGED createdBy

DeleteTask(callers, bags) ==
    \E user_id \in callers, p \in bags :
       \E o \in delete_task(DB, likeEscape, user_id, p) :
          Returned("delete_task", user_id, p, o) /\ UNCHANGED createdBy

UpdateTask(callers, bags) ==
    \E user_id \in callers, p \in bags :
       \E o \in update_task(DB, likeEscape, user_id, p) :
          Returned("update_task", user_id, p, o) /\ UNCHANGED createdBy

\* one caller at a time: the resolver runs from lookup to return
EnsureGuestUser ==
    \E user_id \in Handles :
       \E o \in _ensure_guest_user_exists(users, hashSeed, user_id) :
          /\ Cardinality(o.users) <= MaxUsers
          /\ users' = o.users
          /\ last' = [NoCall EXCEPT !.op = "_ensure_guest_user_exists",
                                    !.user_id = user_id, !.uid = o.uid]
          /\ UNCHANGED <<tasks, nextTaskId, createdBy, hashSeed, likeEscape, calls,
                         conversations, messages>>

\* identity and ownership: every tool, numeric and guest callers, the resolver
Next ==
    \/ AddTask(Handles, AddBags)
    \/ ListTasks(Handles, ListBags)
    \/ CompleteTask(Handles, CompleteBags)
    \/ DeleteTask(Handles, DeleteBags)
    \/ UpdateTask(Handles, UpdateBags)
    \/ EnsureGuestUser

Spec == Init /\ [][Next]_vars

\* parameter handling: one numeric caller, the aliases and special characters
NextEdit ==
    \/ AddTask(EditHandles, EditAddBags)
    \/ ListTasks(EditHandles, ListBags)
    \/ CompleteTask(EditHandles, EditCompleteBags)
    \/ DeleteTask(EditHandles, EditDeleteBags)
    \/ UpdateTask(EditHandles, EditUpdateBags)

SpecEdit == InitEdit /\ [][NextEdit]_vars

(***************************************************************************)
(* Two callers inside the creating resolver at once.  The lookup and the   *)
(* insert are separate statements of the store; nothing orders one         *)
(* caller's insert before the other caller's lookup.                       *)
(***************************************************************************)
\* lines 31-38 (and 59-64): hash the handle, look the e-mail up, return on a hit
EnsureLookup(c) ==
    /\ calls[c].pc # "insert"
    /\ \E user_id \in Handles :
          IF EnsureIsNumeric(user_id)
          THEN calls' = [calls EXCEPT ![c] =
                   [pc |-> "done", user_id |-> user_id, missed |-> FALSE,
                    uid |-> IntVal(user_id)]]
          ELSE LET existing == UsersByEmail(users, EnsureEmail(hashSeed, user_id))
               IN IF existing # {}
                  THEN \E u \in existing :
                          calls' = [calls EXCEPT ![c] =
                              [pc |-> "done", user_id |-> user_id,
                               missed |-> FALSE, uid |-> u.id]]
                  ELSE calls' = [calls EXCEPT ![c] =
                           [pc |-> "insert", user_id |-> user_id,
                            missed |-> TRUE, uid |-> 0]]
    /\ UNCHANGED <<users, tasks, nextTaskId, createdBy, hashSeed, likeEscape, last,
                   conversations, messages>>

\* the insert made one statement with a second lookup: insert-or-fetch
EnsureInsertOrFetch(c) ==
    /\ calls[c].pc = "insert"
    /\ Cardinality(users) < MaxUsers
    /\ LET email == EnsureEmail(hashSeed, calls[c].user_id)
           existing == UsersByEmail(users, email)
       IN IF existing # {}
          THEN /\ users' = users
               /\ \E u \in existing :
                     calls' = [calls EXCEPT ![c].pc = "done", ![c].uid = u.id]
          ELSE /\ users' = InsertUser(users, email,
                                      EnsureUsername(hashSeed, calls[c].user_id))
               /\ calls' = [calls EXCEPT ![c].pc = "done",
                                         ![c].uid = NextUserId(users)]
    /\ UNCHANGED <<tasks, nextTaskId, createdBy, hashSeed, likeEscape, last,
                   conversations, messages>>

\* lines 40-52 (and 66-77): build the row, add, commit, return the new id
EnsureInsert(c) ==
    /\ calls[c].pc = "insert"
    /\ Cardinality(users) < MaxUsers
    /\ users' = InsertUser(users, EnsureEmail(hashSeed, calls[c].user_id),
                           EnsureUsername(hashSeed, calls[c].user_id))
    /\ calls' = [calls EXCEPT ![c].pc = "done", ![c].uid = NextUserId(users)]
    /\ UNCHANGED <<tasks, nextTaskId, createdBy, hashSeed, likeEscape, last,
                   conversations, messages>>

NextRace ==
    \/ \E c \in Callers : EnsureLookup(c)
    \/ \E c \in Callers : EnsureInsert(c)

SpecRace == Init /\ [][NextRace]_vars

(***************************************************************************)
(* Authorization and failures: every tool called by refused handles, by a  *)
(* numeric user and by guests without a user row, with parameter bags that *)
(* reach each failure.                                                     *)
(***************************************************************************)
GateAddBags == {[NoParams EXCEPT !.title = T_wild]}

GateListBags == {NoParams}

GateCompleteBags == {[NoParams EXCEPT !.task_id = i] : i \in {Id_1, Id_x}}

GateDeleteBags ==
    {NoParams,
     [NoParams EXCEPT !.task_id = Id_1],
     [NoParams EXCEPT !.task_id = Id_x],
     [NoParams EXCEPT !.task_name = T_MILK],
     [NoParams EXCEPT !.name = T_X]}

GateUpdateBags ==
    {NoParams,
     [NoParams EXCEPT !.task_id = Id_1, !.new_title = T_X],
     [NoParams EXCEPT !.task_id = Id_x, !.new_title = T_X],
     [NoParams EXCEPT !.task_name = T_MILK, !.new_description = D_e]}

\* a call of MockAuthService.validate_user on its own
ValidateUser ==
    /\ \E user_id \in AuthHandles :
          last' = [NoCall EXCEPT !.op = "validate_user", !.user_id = user_id,
                                 !.ret = {validate_user(user_id)}]
    /\ UNCHANGED <<users, tasks, nextTaskId, createdBy, hashSeed, likeEscape,
                   calls, conversations, messages>>

NextGate ==
    \/ ValidateUser
    \/ AddTask(GateHandles, GateAddBags)
    \/ ListTasks(GateHandles, GateListBags)
    \/ CompleteTask(GateHandles, GateCompleteBags)
    \/ DeleteTask(GateHandles, GateDeleteBags)
    \/ UpdateTask(GateHandles, GateUpdateBags)

SpecGate == Init /\ [][NextGate]_vars

(***************************************************************************)
(* Locating the task of delete_task and update_task: one numeric caller,   *)
(* aliases that are absent, empty or text, titles with a LIKE wildcard,    *)
(* either escape character.                                                *)
(***************************************************************************)
LocateAddBags ==
    {[NoParams EXCEPT !.title = T_lit],
     [NoParams EXCEPT !.title = T_wild, !.description = D_d]}

LocateDeleteBags ==
    {NoParams,
     [NoParams EXCEPT !.title = <<>>],
     [NoParams EXCEPT !.task_title = <<>>],
     [NoParams EXCEPT !.task_id = Id_2],
     [NoParams EXCEPT !.task_name = T_lit],
     [NoParams EXCEPT !.task_name = T_X]}

LocateUpdateBags ==
    {NoParams,
     [NoParams EXCEPT !.title = <<>>],
     [NoParams EXCEPT !.task_id = Id_2, !.new_title = T_X],
     [NoParams EXCEPT !.task_id = Id_1, !.new_title = <<>>, !.title = T_X],
     [NoParams EXCEPT !.task_id = Id_1, !.new_description = <<>>,
                      !.description = D_e],
     [NoParams EXCEPT !.title_to_find = <<>>, !.task_name = T_wild,
                      !.new_description = D_e],
     [NoParams EXCEPT !.task_name = T_lit, !.new_description = D_e],
     [NoParams EXCEPT !.task_name = T_X, !.new_description = D_e]}

NextLocate ==
    \/ AddTask(EditHandles, LocateAddBags)
    \/ DeleteTask(EditHandles, LocateDeleteBags)
    \/ UpdateTask(EditHandles, LocateUpdateBags)

SpecLocate == InitEdit /\ [][NextLocate]_vars

(***************************************************************************)
(* Conversations and messages.  add_message checks no conversation, and no *)
(* conversation call reads a message, so the two tables are run apart:     *)
(* conversations by a numeric user, a guest and a handle that is neither;  *)
(* messages by the numeric user and the guest.                             *)
(***************************************************************************)
ChatHandles == {H_42, H_guest_42, H_abc}

HistoryHandles == {H_42, H_guest_42}

\* the conversation ids messages are added to and listed for
HistoryConversationIds == {1, 2}

\* the conversation ids passed: None, 0, every id the table can hold, one more
ConversationIds == {NoId} \cup {{i} : i \in 0..(MaxConversations + 1)}

Limits == 0..MaxLimit

S_user == <<"u", "s", "e", "r">>

M_hi == <<"h", "i">>

CDB == [users |-> users, conversations |-> conversations, messages |-> messages]

\* what a chat call leaves behind
ChatReturned(op, user_id, conversation_id, limit, o) ==
    /\ Cardinality(o.users) <= MaxUsers
    /\ Cardinality(o.conversations) <= MaxConversations
    /\ Cardinality(o.messages) <= MaxMessages
    /\ users' = o.users
    /\ conversations' = o.conversations
    /\ messages' = o.messages
    /\ last' = [NoCall EXCEPT !.op = op, !.user_id = user_id, !.uid = o.uid,
                               !.conversation_id = conversation_id,
                               !.limit = limit, !.ret = o.ret, !.rows = o.rows]
    /\ UNCHANGED <<tasks, nextTaskId, createdBy, hashSeed, likeEscape, calls>>

CreateConversation ==
    \E user_id \in ChatHandles :
       \E o \in create_conversation(CDB, hashSeed, user_id) :
          ChatReturned("create_conversation", user_id, NoId, 0, o)

GetConversation ==
    \E user_id \in ChatHandles, conversation_id \in 1..(MaxConversations + 1) :
       \E o \in get_conversation(CDB, hashSeed, conversation_id, user_id) :
          ChatReturned("get_conversation", user_id, {conversation_id}, 0, o)

GetOrCreateConversation ==
    \E user_id \in ChatHandles, conversation_id \in ConversationIds :
       \E o \in get_or_create_conversation(CDB, hashSeed, conversation_id,
                                           user_id) :
          ChatReturned("get_or_create_conversation", user_id, conversation_id,
                       0, o)

AddMessage ==
    \E user_id \in HistoryHandles, conversation_id \in HistoryConversationIds :
       \E o \in add_message(CDB, hashSeed, conversation_id, user_id, S_user,
                            M_hi) :
          ChatReturned("add_message", user_id, {conversation_id}, 0, o)

GetConversationHistory ==
    \E user_id \in HistoryHandles, conversation_id \in HistoryConversationIds,
       limit \in Limits :
       \E o \in get_conversation_history(CDB, hashSeed, conversation_id,
                                         user_id, limit) :
          ChatReturned("get_conversation_history", user_id, {conversation_id},
                       limit, o)

NextConversation ==
    \/ CreateConversation
    \/ GetConversation
    \/ GetOrCreateConversation

SpecConversation == Init /\ [][NextConversation]_vars

NextHistory ==
    \/ AddMessage
    \/ GetConversationHistory

SpecHistory == Init /\ [][NextHistory]_vars

(***************************************************************************)
(* The reading operations list_tasks, get_conversation and                 *)
(* get_conversation_history, over tables that add_task and                 *)
(* create_conversation fill.                                               *)
(***************************************************************************)
ReadHandles == {H_42, H_guest_42}

NextRead ==
    \/ AddTask(ReadHandles, GateAddBags)
    \/ CreateConversation
    \/ ListTasks(ReadHandles, GateListBags)
    \/ GetConversation
    \/ GetConversationHistory

SpecRead == Init /\ [][NextRead]_vars

(***************************************************************************)
(* Properties.                                                             *)
(***************************************************************************)
Mutations == {"complete_task", "delete_task", "update_task"}

\* the tasks a user owns
OwnedBy(ts, uid) == {t \in ts : t.user_id = uid}

\* C1: a list_tasks call that returns reports only rows of the task table
\* whose owner is the user the call resolved its handle to, and every one of
\* them was created by an add_task that resolved its caller to that same
\* user: no task created for another user is listed, whatever the handles.
ListIsolation ==
    (last.op = "list_tasks" /\ last.err = "") =>
        \A t \in last.ret : /\ t \in tasks
                            /\ t.user_id = last.uid
                            /\ createdBy[t.id] = last.uid

\* the guest "guest_42" lists its own task while user "42" owns a task too
ListIsolationWitness ==
    /\ last.op = "list_tasks"
    /\ last.user_id = H_guest_42
    /\ last.err = ""
    /\ last.ret # {}
    /\ OwnedBy(tasks, 42) # {}
    /\ last.uid # 42

\* C2: complete_task, delete_task and update_task leave every task of a user
\* other than the one the call resolved untouched, by id and by title alike:
\* such a task is in the table after the call exactly as it was before.
MutationIsolation ==
    [][last'.op \in Mutations =>
          \A t \in tasks \cup tasks' :
             t.user_id # last'.uid => (t \in tasks /\ t \in tasks')]_vars

\* a delete by title removed the caller's task although another user's task
\* matches the same title
MutationIsolationWitness ==
    /\ last.op = "delete_task"
    /\ last.p.task_id = None
    /\ last.err = ""
    /\ \E t \in tasks : /\ t.user_id # last.uid
                        /\ ILike(t.title, Wrapped(DeleteLocator(last.p)), "")

\* C9: complete_task by a resolved caller with a task id that names no task,
\* or a task of another user, raises NotFound and changes no task.
CompleteMissingIsNotFound ==
    [][(/\ last'.op = "complete_task"
        /\ last'.uid # 0
        /\ IntOk(last'.p.task_id)
        /\ ~\E t \in tasks : /\ t.id = IntVal(last'.p.task_id)
                             /\ t.user_id = last'.uid)
       => (last'.err = "NotFound" /\ tasks' = tasks)]_vars

\* complete_task was refused on a task that exists and belongs to another user
CompleteMissingWitness ==
    /\ last.op = "complete_task"
    /\ last.err = "NotFound"
    /\ \E t \in tasks : /\ t.id = IntVal(last.p.task_id)
                        /\ t.user_id # last.uid
                        /\ ~t.completed

\* C3: from any user table the program reaches one call at a time, two
\* calls in a row of the creating resolver with one non-numeric handle return
\* the same user id, the second call leaves the table as the first left it,
\* and the table then holds exactly one row with the handle's e-mail.
EnsureIdempotent ==
    \A h \in Handles :
       ~EnsureIsNumeric(h) =>
          \A first \in _ensure_guest_user_exists(users, hashSeed, h) :
             \A second \in _ensure_guest_user_exists(first.users, hashSeed, h) :
                /\ second.uid = first.uid
                /\ second.users = first.users
                /\ Cardinality(UsersByEmail(second.users,
                                            EnsureEmail(hashSeed, h))) = 1

\* the resolver has created the row of "guest_42" and returned its id
EnsureIdempotentWitness ==
    /\ last.op = "_ensure_guest_user_exists"
    /\ last.user_id = H_guest_42
    /\ UsersByEmail(users, EnsureEmail(hashSeed, H_guest_42))
          = {u \in users : u.id = last.uid}
    /\ Cardinality(UsersByEmail(users, EnsureEmail(hashSeed, H_guest_42))) = 1

GuestTaskOwnedByDigitsUser ==
    (last.op = "add_task" /\ last.user_id = H_guest_42 /\ last.err = "")
       => \E u \in users : /\ u.id = last.uid
                           /\ u.email = GuestEmail(42)
                           /\ \A t \in last.ret : t.user_id = u.id

\* C6: for a caller who owns no task, add_task, then complete_task of the id
\* it returned, then list_tasks "completed" yields exactly the one task, with
\* the title given and completed; list_tasks "pending" then yields none.
RoundTrip ==
    \A u \in Handles, pa \in AddBags :
       \A a \in add_task(DB, hashSeed, u, pa) :
          (a.err = "" /\ OwnedBy(tasks, a.uid) = {}) =>
             LET db1 == [DB EXCEPT !.tasks = a.tasks,
                                   !.nextTaskId = a.nextTaskId]
                 pc == [NoParams EXCEPT !.task_id = NatStr(a.task_id)]
             IN \A c \in complete_task(db1, hashSeed, u, pc) :
                   LET db2 == [db1 EXCEPT !.tasks = c.tasks]
                       done == list_tasks(db2, hashSeed, u,
                                  [NoParams EXCEPT !.status = S_completed])
                       pending == list_tasks(db2, hashSeed, u,
                                     [NoParams EXCEPT !.status = S_pending])
                   IN /\ c.err = ""
                      /\ \A l \in done :
                            /\ l.err = ""
                            /\ Cardinality(l.ret) = 1
                            /\ \A t \in l.ret : /\ t.id = a.task_id
                                                /\ t.title = pa.title
                                                /\ t.completed = TRUE
                      /\ \A l \in pending : l.err = "" /\ l.ret = {}

\* a caller listed "completed" and got its only task, added and then completed
RoundTripWitness ==
    /\ last.op = "list_tasks"
    /\ last.p.status = S_completed
    /\ last.err = ""
    /\ Cardinality(last.ret) = 1
    /\ OwnedBy(tasks, last.uid) = last.ret
    /\ \A t \in last.ret : t.completed /\ t.title = T_wild

TitleLikeKeys == {"title", "task_name", "name", "task_title", "title_to_find"}

\* the values a title-like parameter is varied over: absent, empty, two texts
AltValues == {None, <<>>, T_lit, T_X}

WithTaskId(bags) == {p \in bags : p.task_id # None}

\* C7 as stated: with task_id supplied, setting any title-like parameter to
\* any value changes nothing of what delete_task and update_task do: the same
\* task is affected and the same rows result.
TitleParamsIgnoredWithId ==
    \A h \in EditHandles, k \in TitleLikeKeys, v \in AltValues :
       /\ \A p \in WithTaskId(EditDeleteBags) :
             delete_task(DB, likeEscape, h, [p EXCEPT ![k] = v])
                = delete_task(DB, likeEscape, h, p)
       /\ \A p \in WithTaskId(EditUpdateBags) :
             update_task(DB, likeEscape, h, [p EXCEPT ![k] = v])
                = update_task(DB, likeEscape, h, p)

\* which task a call acted on, and how it ended
Targets(outcomes) == {[err |-> o.err, task_id |-> o.task_id] : o \in outcomes}

\* C7 as amended: with task_id supplied the target is chosen by task_id alone,
\* whatever the title-like parameters; delete_task ignores them all;
\* update_task ignores task_name, name, task_title and title_to_find, and
\* ignores title when a non-empty new_title is given; otherwise a title that
\* is present becomes the task's new title and changes nothing else.
TitleParamsWithId ==
    \A h \in EditHandles, k \in TitleLikeKeys, v \in AltValues :
       /\ \A p \in WithTaskId(EditDeleteBags) :
             delete_task(DB, likeEscape, h, [p EXCEPT ![k] = v])
                = delete_task(DB, likeEscape, h, p)
       /\ \A p \in WithTaskId(EditUpdateBags) :
             LET q == [p EXCEPT ![k] = v]
                 with == update_task(DB, likeEscape, h, q)
                 without == update_task(DB, likeEscape, h,
                                        [p EXCEPT !.title = None])
             IN /\ Targets(with) = Targets(update_task(DB, likeEscape, h, p))
                /\ (k # "title" \/ Truthy(p.new_title)) =>
                      with = update_task(DB, likeEscape, h, p)
                /\ (k = "title" /\ ~Truthy(p.new_title)) =>
                      \A o \in with :
                         \E o0 \in without :
                            /\ o.task_id = o0.task_id
                            /\ o.ret = {IF v = None THEN t
                                        ELSE [t EXCEPT !.title = v] : t \in o0.ret}

\* update_task was given a task_id and a task_name, and changed the task
TitleParamsWitness ==
    /\ last.op = "update_task"
    /\ last.err = ""
    /\ last.p.task_id # None
    /\ last.p.task_name = T_lit
    /\ \E t \in tasks : /\ t.id = last.task_id
                        /\ t.title = T_X
                        /\ ~ILike(t.title, Wrapped(T_lit), "")

\* C8: an update_task call that returns changes at most the one task it acted
\* on, never its id, owner or completed flag, its description only when
\* new_description or description is supplied, and its title only when
\* new_title or title is supplied; a non-empty new_title or new_description
\* supplied is the value the task then holds.
UpdateOnlySupplied ==
    [][(last'.op = "update_task" /\ last'.err = "") =>
          LET p == last'.p
              tid == last'.task_id
          IN /\ \A t \in tasks \cup tasks' :
                   t.id # tid => (t \in tasks /\ t \in tasks')
             /\ \E t \in tasks, n \in tasks' :
                   /\ t.id = tid /\ n.id = tid
                   /\ n.user_id = t.user_id
                   /\ n.completed = t.completed
                   /\ (p.new_description = None /\ p.description = None)
                         => n.description = t.description
                   /\ (p.new_title = None /\ p.title = None)
                         => n.title = t.title
                   /\ Truthy(p.new_title) => n.title = p.new_title
                   /\ Truthy(p.new_description)
                         => n.description = p.new_description]_vars

\* task_id and new_title alone: the task is retitled, still described "d" and
\* completed, and another task stands beside it
UpdateOnlySuppliedWitness ==
    /\ last.op = "update_task"
    /\ last.err = ""
    /\ last.p = [NoParams EXCEPT !.task_id = Id_1, !.new_title = T_X]
    /\ \E t \in tasks : /\ t.id = 1
                        /\ t.title = T_X
                        /\ t.description = D_d
                        /\ t.completed
    /\ Cardinality(tasks) = 2

\* s holds sub, letter case aside
HoldsText(s, sub) == Contains(Lower(s), Lower(sub))

\* C10: a delete_task by the title "mi%lk" deletes a task of the caller whose
\* title holds the text "mi%lk" itself, and fails only when the caller has
\* no such task; it never deletes a task that holds no "mi%lk".
DeleteTitleLiteral ==
    (/\ last.op = "delete_task"
     /\ last.p.task_id = None
     /\ DeleteLocator(last.p) = T_lit
     /\ last.uid # 0)
    => \/ /\ last.err = ""
          /\ \A t \in last.ret : HoldsText(t.title, T_lit)
       \/ /\ last.err = "NotFound"
          /\ ~\E t \in OwnedBy(tasks, last.uid) : HoldsText(t.title, T_lit)

ToolOps == {"add_task", "list_tasks", "complete_task", "delete_task",
            "update_task"}

\* a handle that is an integer <= 0, or neither holds "guest" nor is an integer
Refused(h) ==
    /\ ~Contains(Lower(h), S_guest)
    /\ \/ AllDigits(h) /\ DigitsValue(h) <= 0
       \/ Len(h) >= 2 /\ h[1] = "-" /\ AllDigits(Tail(h))
       \/ ~IntOk(h)

\* C11: every call of add_task, list_tasks, complete_task, delete_task or
\* update_task with a refused handle raises Unauthorized, resolves no user,
\* reports no row and leaves the user table, the task table and the task
\* sequence as they were.
AuthorizationGate ==
    [][(last'.op \in ToolOps /\ Refused(last'.user_id)) =>
          /\ last'.err = "Unauthorized"
          /\ last'.uid = 0
          /\ last'.ret = {}
          /\ tasks' = tasks
          /\ users' = users
          /\ nextTaskId' = nextTaskId]_vars

\* handle "0" asked to delete task 1, which exists, and was refused
AuthorizationGateWitness ==
    /\ last.op = "delete_task"
    /\ last.user_id = H_0
    /\ last.p.task_id = Id_1
    /\ last.err = "Unauthorized"
    /\ \E t \in tasks : t.id = 1

\* C12: a call of add_task, list_tasks, complete_task, delete_task or
\* update_task that fails, whatever the failure, leaves the task table, the
\* task sequence and the user table exactly as they were before the call.
FailureChangesNothing ==
    [][(last'.op \in ToolOps /\ last'.err # "") =>
          /\ last'.err \in {"Unauthorized", "InvalidFormat", "NotFound",
                            "MissingIdentifier"}
          /\ tasks' = tasks
          /\ nextTaskId' = nextTaskId
          /\ users' = users]_vars

\* update_task by a resolved caller failed on a title no task of the caller
\* holds, while the caller owns a task
FailureChangesNothingWitness ==
    /\ last.op = "update_task"
    /\ last.err = "NotFound"
    /\ last.uid # 0
    /\ last.p.task_name = T_MILK
    /\ OwnedBy(tasks, last.uid) # {}

\* C13: validate_user is true for the decimal string of a positive integer,
\* false for the decimal string of an integer <= 0, and true for every
\* handle that holds "guest" in any letter case, whatever follows it.
ValidateUserContract ==
    last.op = "validate_user" =>
       LET h == last.user_id
       IN /\ (AllDigits(h) /\ DigitsValue(h) > 0) => last.ret = {TRUE}
          /\ (AllDigits(h) /\ DigitsValue(h) = 0) => last.ret = {FALSE}
          /\ (Len(h) >= 2 /\ h[1] = "-" /\ AllDigits(Tail(h)))
                => last.ret = {FALSE}
          /\ Contains(Lower(h), S_guest) => last.ret = {TRUE}

\* the check was applied to "GUEST_-5" and answered true
ValidateUserWitness ==
    /\ last.op = "validate_user"
    /\ last.user_id = H_GUEST_minus5
    /\ last.ret = {TRUE}

\* the user ids the creating resolver gives a handle in the present store
ResolvesTo(h) == {r.uid : r \in _ensure_guest_user_exists(users, hashSeed, h)}

\* C14: a get_conversation call returns a row only when the row is in the
\* conversation table, has the id asked for and is owned by the user id the
\* handle resolves to; for an id whose conversations all belong to other
\* users it returns None, whoever created conversations before.
GetConversationOwned ==
    last.op = "get_conversation" =>
       /\ last.uid \in ResolvesTo(last.user_id)
       /\ \A c \in last.ret : /\ c \in conversations
                              /\ {c.id} = last.conversation_id
                              /\ c.user_id = last.uid
       /\ (\A c \in conversations :
              {c.id} = last.conversation_id => c.user_id # last.uid)
             => last.ret = {}

\* the guest asked for a conversation that exists and belongs to user 42,
\* and got None
GetConversationOwnedWitness ==
    /\ last.op = "get_conversation"
    /\ last.user_id = H_guest_42
    /\ last.ret = {}
    /\ \E c \in conversations : /\ {c.id} = last.conversation_id
                                 /\ c.user_id = 42

\* C15: get_or_create_conversation returns the existing row and creates
\* nothing when conversation_id names a conversation owned by the resolved
\* user; in every other case (None, 0, unknown id, another user's id) it adds
\* exactly one conversation, owned by the resolved user, returns it, and
\* leaves every existing conversation as it was.
GetOrCreateContract ==
    [][last'.op = "get_or_create_conversation" =>
          LET owned == {c \in conversations :
                           /\ {c.id} = last'.conversation_id
                           /\ c.user_id = last'.uid}
              added == conversations' \ conversations
          IN /\ last'.uid \in ResolvesTo(last.user_id)'
             /\ IF owned # {}
                THEN /\ conversations' = conversations
                     /\ last'.ret = owned
                ELSE /\ conversations \subseteq conversations'
                     /\ Cardinality(added) = 1
                     /\ last'.ret = added
                     /\ \A c \in added :
                           /\ c.user_id = last'.uid
                           /\ \A d \in conversations : d.id # c.id]_vars

\* the guest passed the id of a conversation of user 42 and got a new
\* conversation of its own beside it
GetOrCreateWitness ==
    /\ last.op = "get_or_create_conversation"
    /\ last.user_id = H_guest_42
    /\ \E c \in conversations : /\ {c.id} = last.conversation_id
                                 /\ c.user_id = 42
    /\ \A c \in last.ret : /\ {c.id} # last.conversation_id
                           /\ c.user_id = last.uid
    /\ last.ret # {}

\* the messages of a conversation stamped with a user
Matching(conversation_id, uid) ==
    {m \in messages : {m.conversation_id} = conversation_id /\ m.user_id = uid}

\* C16: get_conversation_history returns only messages of the conversation
\* asked for that are stamped with the user the caller resolves to, oldest
\* first, and as many as there are but at most limit, the oldest ones; a
\* message another user added to the same conversation is not among them.
HistoryContract ==
    last.op = "get_conversation_history" =>
       LET rows == last.rows
           mine == Matching(last.conversation_id, last.uid)
           shown == {rows[i] : i \in 1..Len(rows)}
       IN /\ last.uid \in ResolvesTo(last.user_id)
          /\ shown \subseteq mine
          /\ \A i, j \in 1..Len(rows) : i < j => rows[i].id < rows[j].id
          /\ Len(rows) = IF Cardinality(mine) < last.limit
                         THEN Cardinality(mine) ELSE last.limit
          /\ \A m \in mine \ shown : \A x \in shown : x.id < m.id

\* the guest has two messages in a conversation where user 42 has one, asked
\* for one and got its older one
HistoryWitness ==
    /\ last.op = "get_conversation_history"
    /\ last.user_id = H_guest_42
    /\ last.limit = 1
    /\ Len(last.rows) = 1
    /\ Cardinality(Matching(last.conversation_id, last.uid)) = 2
    /\ Matching(last.conversation_id, 42) # {}
    /\ \A m \in Matching(last.conversation_id, last.uid) :
          last.rows[1].id <= m.id

\* the title-locator aliases of each tool, in the order the tool reads them
LocatorKeys(op) ==
    IF op = "delete_task" THEN <<"title", "task_name", "name", "task_title">>
    ELSE <<"title_to_find", "task_name", "name", "task_title", "title">>

\* the values a bag gives a sequence of keys
Values(p, keys) == [i \in 1..Len(keys) |-> p[keys[i]]]

\* the first value that is not None, else None
RECURSIVE FirstNonNull(_)
FirstNonNull(vs) ==
    IF vs = <<>> THEN None
    ELSE IF vs[1] # None THEN vs[1] ELSE FirstNonNull(Tail(vs))

\* the first value that is neither None nor empty, else the last value
RECURSIVE FirstNonEmptyElseLast(_)
FirstNonEmptyElseLast(vs) ==
    IF Len(vs) = 1 THEN vs[1]
    ELSE IF vs[1] # None /\ vs[1] # <<>> THEN vs[1]
    ELSE FirstNonEmptyElseLast(Tail(vs))

LikeSpecials == {"%", "_", "\\"}

PlainText(s) == \A i \in 1..Len(s) : s[i] \notin LikeSpecials

\* C17: for a resolved caller and a task_id that is absent or a number,
\* delete_task and update_task raise MissingIdentifier exactly when the call
\* gives no task_id and no title locator (a locator being an alias holding
\* text), raise NotFound when the task_id, or else the locator, a plain
\* text, matches no task of the caller, and change no task in either case.
LocatorFailures ==
    [][(/\ last'.op \in {"delete_task", "update_task"}
        /\ last'.uid # 0
        /\ (last'.p.task_id = None \/ IntOk(last'.p.task_id)))
       => LET p == last'.p
              keys == LocatorKeys(last'.op)
              given == {i \in 1..Len(keys) : Truthy(p[keys[i]])}
              locator == p[keys[Min(given)]]
              mine == OwnedBy(tasks, last'.uid)
          IN /\ last'.err = "MissingIdentifier"
                   <=> (p.task_id = None /\ given = {})
             /\ (/\ p.task_id # None
                 /\ \A t \in mine : t.id # IntVal(p.task_id))
                   => last'.err = "NotFound"
             /\ (/\ p.task_id = None
                 /\ given # {}
                 /\ PlainText(locator)
                 /\ \A t \in mine : ~HoldsText(t.title, locator))
                   => last'.err = "NotFound"
             /\ last'.err \in {"MissingIdentifier", "NotFound"}
                   => tasks' = tasks]_vars

\* C18 as stated: in an update_task call that returns, the title locator is
\* the first value that is not None among title_to_find, task_name, name,
\* task_title, title, the new title the first among new_title, title, the
\* new description the first among new_description, description, an empty
\* string counting as a value: the task acted on matches that locator and
\* then holds those new values.
AliasFirstNonNull ==
    [][(last'.op = "update_task" /\ last'.err = "") =>
          LET p == last'.p
              locator == FirstNonNull(Values(p, LocatorKeys("update_task")))
              new_title == FirstNonNull(<<p.new_title, p.title>>)
              new_description ==
                  FirstNonNull(<<p.new_description, p.description>>)
          IN \E old \in tasks, new \in tasks' :
                /\ old.id = last'.task_id /\ new.id = last'.task_id
                /\ p.task_id = None =>
                      /\ locator # None
                      /\ ILike(old.title, Wrapped(locator), likeEscape)
                /\ new.title = IF new_title # None THEN new_title
                               ELSE old.title
                /\ new.description = IF new_description # None
                                     THEN new_description
                                     ELSE old.description]_vars

\* C18 as amended: the locator is the first value among title_to_find,
\* task_name, name, task_title, title that is neither None nor empty, the new
\* title the first such among new_title, title, the new description the first
\* such among new_description, description; an alias holding the empty string
\* is passed over for a later one, and when no alias holds text the value is
\* that of the last alias in the order, empty or None as it is.
AliasFirstNonEmpty ==
    [][(last'.op = "update_task" /\ last'.err = "") =>
          LET p == last'.p
              locator ==
                  FirstNonEmptyElseLast(Values(p, LocatorKeys("update_task")))
              new_title == FirstNonEmptyElseLast(<<p.new_title, p.title>>)
              new_description ==
                  FirstNonEmptyElseLast(<<p.new_description, p.description>>)
          IN \E old \in tasks, new \in tasks' :
                /\ old.id = last'.task_id /\ new.id = last'.task_id
                /\ p.task_id = None =>
                      /\ locator # None
                      /\ ILike(old.title, Wrapped(locator), likeEscape)
                /\ new.title = IF new_title # None THEN new_title
                               ELSE old.title
                /\ new.description = IF new_description # None
                                     THEN new_description
                                     ELSE old.description]_vars

\* update_task was given task_id 1, an empty new_title and the title "X",
\* and task 1 is now titled "X"
AliasWitness ==
    /\ last.op = "update_task"
    /\ last.err = ""
    /\ last.p.new_title = <<>>
    /\ last.p.title = T_X
    /\ \E t \in tasks : t.id = last.task_id /\ t.title = T_X

\* the locators both tools take: a task id, or text under task_name
SharedLocators ==
    {[NoParams EXCEPT !.task_id = i] : i \in {Id_1, Id_2}}
    \cup {[NoParams EXCEPT !.task_name = x] : x \in {T_lit, T_wild, T_MILK, T_X}}

\* C19: from one store, for one caller and one locator (a task id, or a text
\* under task_name), update_task acts on the task delete_task would delete,
\* and fails when delete_task would fail, a text holding '%' included.
UpdateResolvesLikeDelete ==
    \A h \in EditHandles, p \in SharedLocators :
       Targets(update_task(DB, likeEscape, h, [p EXCEPT !.new_description = D_e]))
          = Targets(delete_task(DB, likeEscape, h, p))

\* how a call's identity resolution ended: the user id, or 0 when it failed
Identities(outcomes) == {o.uid : o \in outcomes}

\* C20: from one store, for the guest handle "guest_42", the five tools
\* resolve the caller alike: all to one and the same user id, or all failing
\* identity resolution.
GuestResolvedAlike ==
    \A h \in {g \in Handles : IsGuestHandle(g)} :
       LET by_add == Identities(add_task(DB, hashSeed, h,
                                         [NoParams EXCEPT !.title = T_wild]))
           by_id == [NoParams EXCEPT !.task_id = Id_1]
       IN /\ Identities(list_tasks(DB, hashSeed, h, NoParams)) = by_add
          /\ Identities(complete_task(DB, hashSeed, h, by_id)) = by_add
          /\ Identities(delete_task(DB, likeEscape, h, by_id)) = by_add
          /\ Identities(update_task(DB, likeEscape, h, by_id)) = by_add

\* C21: once the creating resolver has returned a user id for the guest
\* handle "guest_42", whichever other handles it created rows for before,
\* add_task, list_tasks and complete_task called with "guest_42" resolve the
\* caller to that same user id and to no other row.
CreatedGuestResolvesSame ==
    (/\ last.op = "_ensure_guest_user_exists"
     /\ IsGuestHandle(last.user_id))
    => LET h == last.user_id
       IN /\ Identities(add_task(DB, hashSeed, h,
                                 [NoParams EXCEPT !.title = T_wild]))
                = {last.uid}
          /\ Identities(list_tasks(DB, hashSeed, h, NoParams)) = {last.uid}
          /\ Identities(complete_task(DB, hashSeed, h,
                                      [NoParams EXCEPT !.task_id = Id_1]))
                = {last.uid}

ReadOps == {"list_tasks", "get_conversation", "get_conversation_history"}

\* C22: a call of list_tasks, get_conversation or get_conversation_history
\* leaves the user, task, conversation and message tables as they were,
\* whatever the handle, a guest without a user row included.
ReadsDoNotWrite ==
    [][last'.op \in ReadOps =>
          /\ users' = users
          /\ tasks' = tasks
          /\ conversations' = conversations
          /\ messages' = messages]_vars

====
